---- MODULE Spec2Model ----
(***************************************************************************)
(* A model of the Streamlit chat front end of class-rag-pro                *)
(* (src/frontend): the line decoder (utils/api.py), the stream aggregator  *)
(* and the turn controller (components/chat_interface.py), the session     *)
(* store (utils/session.py) and the script that drives them (app.py).      *)
(*                                                                         *)
(* Representation of Python values.  A str is a sequence of text units: a  *)
(* unit is one character of a received line, or one literal of the program *)
(* text or one word of the wire vocabulary written as a whole ("type",     *)
(* "Error: ", ...).  Every other value carries its Python type in t and    *)
(* its content in v, so that str(), truthiness and the type errors of the  *)
(* code can be computed as Python computes them.                           *)
(***************************************************************************)
EXTENDS Integers, Sequences, FiniteSets, TLC

----------------------------------------------------------------------------
(* Python values *)

PyNone == [t |-> "NoneType", v |-> <<>>]
PyStr(s) == [t |-> "str", v |-> s]
PyInt(digits) == [t |-> "int", v |-> digits]
PyBool(b) == [t |-> "bool", v |-> IF b THEN <<"True">> ELSE <<"False">>]
PyList(elems) == [t |-> "list", v |-> elems]
PyDict(items) == [t |-> "dict", v |-> items]

\* bool(value): the truth value Python gives a value in `if value:`
Truthy(val) ==
    CASE val.t = "NoneType" -> FALSE
      [] val.t = "bool" -> val.v = <<"True">>
      [] val.t = "int" -> val.v # <<"0">>
      [] OTHER -> val.v # <<>>

RECURSIVE DictHas(_, _)
\* key in d
DictHas(items, key) ==
    IF items = <<>> THEN FALSE
    ELSE IF Head(items).k = key THEN TRUE
    ELSE DictHas(Tail(items), key)

RECURSIVE DictGet(_, _, _)
\* d.get(key, default)
DictGet(items, key, default) ==
    IF items = <<>> THEN default
    ELSE IF Head(items).k = key THEN Head(items).val
    ELSE DictGet(Tail(items), key, default)

\* d[key] = val: an existing key keeps its place, a new key goes last
DictSet(items, key, val) ==
    IF DictHas(items, key)
    THEN [i \in 1..Len(items) |->
            IF items[i].k = key THEN [k |-> key, val |-> val] ELSE items[i]]
    ELSE Append(items, [k |-> key, val |-> val])

RECURSIVE JoinRepr(_, _)
RECURSIVE JoinItems(_, _)
RECURSIVE PyRepr(_)
\* repr(value), for the values a line can carry
PyRepr(val) ==
    CASE val.t = "str" -> <<"'">> \o val.v \o <<"'">>
      [] val.t = "list" -> <<"[">> \o JoinRepr(val.v, TRUE) \o <<"]">>
      [] val.t = "dict" -> <<"{">> \o JoinItems(val.v, TRUE) \o <<"}">>
      [] val.t = "NoneType" -> <<"None">>
      [] OTHER -> val.v

JoinRepr(elems, first) ==
    IF elems = <<>> THEN <<>>
    ELSE (IF first THEN <<>> ELSE <<",", " ">>)
         \o PyRepr(Head(elems)) \o JoinRepr(Tail(elems), FALSE)

JoinItems(items, first) ==
    IF items = <<>> THEN <<>>
    ELSE (IF first THEN <<>> ELSE <<",", " ">>)
         \o <<"'">> \o Head(items).k \o <<"'", ":", " ">>
         \o PyRepr(Head(items).val) \o JoinItems(Tail(items), FALSE)

\* str(value), as an f-string formats it
PyToStr(val) == IF val.t = "str" THEN val.v ELSE PyRepr(val)

----------------------------------------------------------------------------
(* json.loads on the text after the prefix.  The grammar is the one of     *)
(* Python's json scanner over the characters the modelled lines use:       *)
(* strings without escapes, non-negative integers, arrays, objects, the    *)
(* literals null/true/false, blanks between tokens.                        *)

Ws == {" "}
Digits == {"0", "1", "2", "3", "4", "5", "6", "7", "8", "9"}

\* a JSONDecodeError
DecodeFail == [ok |-> FALSE, val |-> PyNone, pos |-> 0]
Scanned(val, pos) == [ok |-> TRUE, val |-> val, pos |-> pos]

RECURSIVE SkipWs(_, _)
SkipWs(s, i) == IF i <= Len(s) /\ s[i] \in Ws THEN SkipWs(s, i + 1) ELSE i

RECURSIVE StringEnd(_, _)
\* the index of the closing quote at or after i, 0 when the string never ends
StringEnd(s, i) ==
    IF i > Len(s) THEN 0
    ELSE IF s[i] = "\"" THEN i
    ELSE StringEnd(s, i + 1)

RECURSIVE DigitsEnd(_, _)
DigitsEnd(s, i) == IF i <= Len(s) /\ s[i] \in Digits THEN DigitsEnd(s, i + 1) ELSE i

\* an integer: 0, or a run of digits that does not start with 0
ScanNumber(s, i) ==
    IF s[i] = "0" THEN Scanned(PyInt(<<"0">>), i + 1)
    ELSE Scanned(PyInt(SubSeq(s, i, DigitsEnd(s, i) - 1)), DigitsEnd(s, i))

IsLiteral(s, i, word) ==
    i + Len(word) - 1 <= Len(s) /\ SubSeq(s, i, i + Len(word) - 1) = word

RECURSIVE ScanOnce(_, _)
RECURSIVE ScanArray(_, _, _)
RECURSIVE ScanObject(_, _, _)
\* one JSON value starting exactly at i
ScanOnce(s, i) ==
    IF i > Len(s) THEN DecodeFail
    ELSE IF s[i] = "\"" THEN
        LET e == StringEnd(s, i + 1) IN
        IF e = 0 THEN DecodeFail ELSE Scanned(PyStr(SubSeq(s, i + 1, e - 1)), e + 1)
    ELSE IF s[i] = "{" THEN
        LET j == SkipWs(s, i + 1) IN
        IF j <= Len(s) /\ s[j] = "}" THEN Scanned(PyDict(<<>>), j + 1)
        ELSE ScanObject(s, j, <<>>)
    ELSE IF s[i] = "[" THEN
        LET j == SkipWs(s, i + 1) IN
        IF j <= Len(s) /\ s[j] = "]" THEN Scanned(PyList(<<>>), j + 1)
        ELSE ScanArray(s, j, <<>>)
    ELSE IF IsLiteral(s, i, <<"n", "u", "l", "l">>) THEN Scanned(PyNone, i + 4)
    ELSE IF IsLiteral(s, i, <<"t", "r", "u", "e">>) THEN Scanned(PyBool(TRUE), i + 4)
    ELSE IF IsLiteral(s, i, <<"f", "a", "l", "s", "e">>) THEN Scanned(PyBool(FALSE), i + 5)
    ELSE IF s[i] \in Digits THEN ScanNumber(s, i)
    ELSE DecodeFail

\* the elements of an array from i on, acc holding those already read
ScanArray(s, i, acc) ==
    LET r == ScanOnce(s, i)
        j == SkipWs(s, r.pos)
    IN  IF ~r.ok \/ j > Len(s) THEN DecodeFail
        ELSE IF s[j] = "]" THEN Scanned(PyList(Append(acc, r.val)), j + 1)
        ELSE IF s[j] = "," THEN ScanArray(s, SkipWs(s, j + 1), Append(acc, r.val))
        ELSE DecodeFail

\* the members of an object from i on, acc holding those already read
ScanObject(s, i, acc) ==
    IF i > Len(s) \/ s[i] # "\"" \/ StringEnd(s, i + 1) = 0 THEN DecodeFail
    ELSE
        LET e == StringEnd(s, i + 1)
            key == SubSeq(s, i + 1, e - 1)
            c == SkipWs(s, e + 1)
        IN  IF c > Len(s) \/ s[c] # ":" THEN DecodeFail
            ELSE
                LET r == ScanOnce(s, SkipWs(s, c + 1))
                    j == SkipWs(s, r.pos)
                IN  IF ~r.ok \/ j > Len(s) THEN DecodeFail
                    ELSE IF s[j] = "}"
                        THEN Scanned(PyDict(DictSet(acc, key, r.val)), j + 1)
                    ELSE IF s[j] = ","
                        THEN ScanObject(s, SkipWs(s, j + 1), DictSet(acc, key, r.val))
                    ELSE DecodeFail

\* json.loads(s): the value, or ok = FALSE for a JSONDecodeError
JsonLoads(s) ==
    LET r == ScanOnce(s, SkipWs(s, 1)) IN
    IF r.ok /\ SkipWs(s, r.pos) = Len(s) + 1
    THEN [ok |-> TRUE, val |-> r.val]
    ELSE [ok |-> FALSE, val |-> PyNone]

----------------------------------------------------------------------------
(* utils/api.py: process_streaming_line *)

StartsWith(s, prefix) ==
    Len(s) >= Len(prefix) /\ SubSeq(s, 1, Len(prefix)) = prefix

\* line[2:]
Payload(s) == SubSeq(s, 3, Len(s))

\* the dict process_streaming_line returns
Event(type, data) == [raised |-> FALSE, type |-> type, data |-> data]
\* an exception that leaves process_streaming_line
Raised(name) == [raised |-> TRUE, type |-> "None", data |-> PyStr(<<name>>)]

\* the branch of a text chunk without its except clause
TextChunkUnguarded(s) ==
    IF JsonLoads(Payload(s)).ok
    THEN Event("text", JsonLoads(Payload(s)).val)
    ELSE Raised("JSONDecodeError")

TextChunk(s) ==
    IF JsonLoads(Payload(s)).ok
    THEN Event("text", JsonLoads(Payload(s)).val)
    ELSE Event("error", PyStr(<<"Failed to parse text chunk">>))

\* the branch of a data chunk handing on the whole array
DataChunkWholeArray(s) ==
    LET r == JsonLoads(Payload(s)) IN
    IF r.ok
    THEN IF r.val.t = "list" /\ Len(r.val.v) > 0
         THEN Event("data", r.val)
         ELSE Event("data", PyNone)
    ELSE Event("error", PyStr(<<"Failed to parse data chunk">>))

DataChunk(s) ==
    LET r == JsonLoads(Payload(s)) IN
    IF r.ok
    THEN IF r.val.t = "list" /\ Len(r.val.v) > 0
         THEN Event("data", r.val.v[1])
         ELSE Event("data", PyNone)
    ELSE Event("error", PyStr(<<"Failed to parse data chunk">>))

\* the branch of an error chunk dropping a payload it cannot parse
ErrorChunkDropped(s) ==
    IF JsonLoads(Payload(s)).ok
    THEN Event("error", JsonLoads(Payload(s)).val)
    ELSE Event("None", PyNone)

ErrorChunk(s) ==
    IF JsonLoads(Payload(s)).ok
    THEN Event("error", JsonLoads(Payload(s)).val)
    ELSE Event("error", PyStr(<<"Failed to parse error chunk">>))

\* the decoder taking a line without a known prefix for text
process_streaming_line_lenient(s) ==
    IF s = <<>> THEN Event("None", PyNone)
    ELSE IF StartsWith(s, <<"0", ":">>) THEN TextChunk(s)
    ELSE IF StartsWith(s, <<"8", ":">>) THEN DataChunk(s)
    ELSE IF StartsWith(s, <<"3", ":">>) THEN ErrorChunk(s)
    ELSE Event("text", PyStr(s))

process_streaming_line(s) ==
    IF s = <<>> THEN Event("None", PyNone)
    ELSE IF StartsWith(s, <<"0", ":">>) THEN TextChunk(s)
    ELSE IF StartsWith(s, <<"8", ":">>) THEN DataChunk(s)
    ELSE IF StartsWith(s, <<"3", ":">>) THEN ErrorChunk(s)
    ELSE Event("None", PyNone)

----------------------------------------------------------------------------
(* components/chat_interface.py: render_streaming_message *)

\* accumulators that begin with what an earlier call left in them
StaleTurn ==
    [content |-> <<"a">>, tools |-> <<PyStr(<<"t">>)>>, sources |-> PyList(<<>>),
     suggested_questions |-> PyList(<<PyStr(<<"q">>)>>),
     shown |-> [drawn |-> FALSE, text |-> <<>>]]

\* the accumulators of one call; shown is what message_placeholder displays
FreshTurn ==
    [content |-> <<>>, tools |-> <<>>, sources |-> PyList(<<>>),
     suggested_questions |-> PyList(<<>>),
     shown |-> [drawn |-> FALSE, text |-> <<>>]]

Continue(acc) == [raised |-> FALSE, exc |-> <<>>, acc |-> acc]
Throw(acc, text) == [raised |-> TRUE, exc |-> text, acc |-> acc]

\* str(e) of the TypeError of content += data
ConcatTypeError(val) == <<"can only concatenate str (not \"", val.t, "\") to str">>
\* str(e) of the AttributeError of val.get(...)
GetAttributeError(val) == <<"'", val.t, "' object has no attribute 'get'">>

\* the placeholder is not redrawn
MarkdownSkipped(acc) == acc

\* message_placeholder.markdown(content)
Markdown(acc) == [acc EXCEPT !.shown = [drawn |-> TRUE, text |-> acc.content]]

\* the branch of a text event with = in place of +=
ConsumeTextReplacing(acc, data) ==
    IF data.t # "str" THEN Throw(acc, ConcatTypeError(data))
    ELSE Continue(Markdown([acc EXCEPT !.content = data.v]))

\* the branch of a text event: content += data, then the placeholder is redrawn
ConsumeText(acc, data) ==
    IF data.t # "str" THEN Throw(acc, ConcatTypeError(data))
    ELSE Continue(Markdown([acc EXCEPT !.content = @ \o data.v]))

\* the branch of an error event leaving the loop with an exception
ConsumeErrorRaising(acc, data) == Throw(acc, PyToStr(data))

\* the branch of an error event adding its text to the content
ConsumeErrorAppending(acc, data) ==
    Continue(Markdown([acc EXCEPT !.content = @ \o <<"Error: ">> \o PyToStr(data)]))

\* the branch of an error event: content is replaced, then the placeholder is redrawn
ConsumeError(acc, data) ==
    Continue(Markdown([acc EXCEPT !.content = <<"Error: ">> \o PyToStr(data)]))

\* tools = [data.get("data", {})]: the record takes the place of the list
ReplaceTools(acc, inner) == [acc EXCEPT !.tools = <<inner>>]

\* tools.append(data.get("data", {}))
AppendTool(acc, inner) == [acc EXCEPT !.tools = Append(@, inner)]

\* sources += ...: the nodes are added to the ones already there
ExtendSources(acc, inner) ==
    [acc EXCEPT !.sources = PyList(@.v \o DictGet(inner.v, <<"nodes">>, PyList(<<>>)).v)]

\* sources = data.get("data", {}).get("nodes", [])
SetSources(acc, inner) ==
    [acc EXCEPT !.sources = DictGet(inner.v, <<"nodes">>, PyList(<<>>))]

\* the questions are set only while there are none
KeepFirstQuestions(acc, data) ==
    IF Truthy(acc.suggested_questions) THEN acc
    ELSE [acc EXCEPT !.suggested_questions = DictGet(data.v, <<"data">>, PyList(<<>>))]

\* suggested_questions = data.get("data", [])
SetQuestions(acc, data) ==
    [acc EXCEPT !.suggested_questions = DictGet(data.v, <<"data">>, PyList(<<>>))]

\* the branch of a data event whose payload is truthy
ConsumeData(acc, data) ==
    IF data.t # "dict" THEN Throw(acc, GetAttributeError(data))
    ELSE
        LET data_type == DictGet(data.v, <<"type">>, PyNone)
            inner == DictGet(data.v, <<"data">>, PyDict(<<>>))
        IN  IF data_type = PyStr(<<"events">>)
                THEN Continue(AppendTool(acc, inner))
            ELSE IF data_type = PyStr(<<"sources">>)
                THEN IF inner.t # "dict" THEN Throw(acc, GetAttributeError(inner))
                     ELSE Continue(SetSources(acc, inner))
            ELSE IF data_type = PyStr(<<"suggested_questions">>)
                THEN Continue(SetQuestions(acc, data))
            ELSE IF data_type = PyStr(<<"tools">>)
                THEN Continue(AppendTool(acc, inner))
            ELSE Continue(acc)

\* if not line: continue
Skipped(raw) == raw = <<>>

\* one pass of the loop over response.iter_lines()
Consume(acc, raw) ==
    IF Skipped(raw) THEN Continue(acc)
    ELSE
        LET processed_ == process_streaming_line(raw) IN
        IF processed_.raised THEN Throw(acc, processed_.data.v)
        ELSE IF processed_.type = "text" THEN ConsumeText(acc, processed_.data)
        ELSE IF processed_.type = "data" /\ Truthy(processed_.data)
            THEN ConsumeData(acc, processed_.data)
        ELSE IF processed_.type = "error" THEN ConsumeError(acc, processed_.data)
        ELSE Continue(acc)

RECURSIVE ConsumeAll(_, _)
\* render_streaming_message over a whole response: the loop, stopped by a raise
ConsumeAll(acc, raws) ==
    IF raws = <<>> THEN Continue(acc)
    ELSE LET step == Consume(acc, Head(raws)) IN
         IF step.raised THEN step ELSE ConsumeAll(step.acc, Tail(raws))

\* the dict render_streaming_message returns
AssistantMessage(acc) ==
    [role |-> "assistant", content |-> acc.content, sources |-> acc.sources,
     tools |-> acc.tools, suggested_questions |-> acc.suggested_questions]

----------------------------------------------------------------------------
(* components/chat_message.py: what rendering a result can raise *)

NoRaise == [raised |-> FALSE, exc |-> <<>>]
Raise(text) == [raised |-> TRUE, exc |-> text]

\* render_tools on one tool record
RenderTool(tool) ==
    IF tool.t \in {"int", "bool", "NoneType"}
        THEN Raise(<<"argument of type '", tool.t, "' is not iterable">>)
    ELSE IF tool.t = "dict" /\ DictHas(tool.v, <<"toolCall">>)
                            /\ DictHas(tool.v, <<"toolOutput">>)
        THEN IF DictGet(tool.v, <<"toolCall">>, PyNone).t # "dict"
                THEN Raise(GetAttributeError(DictGet(tool.v, <<"toolCall">>, PyNone)))
             ELSE IF DictGet(tool.v, <<"toolOutput">>, PyNone).t # "dict"
                THEN Raise(GetAttributeError(DictGet(tool.v, <<"toolOutput">>, PyNone)))
             ELSE NoRaise
    ELSE NoRaise

RECURSIVE render_tools(_)
render_tools(tools) ==
    IF tools = <<>> THEN NoRaise
    ELSE IF RenderTool(Head(tools)).raised THEN RenderTool(Head(tools))
    ELSE render_tools(Tail(tools))

\* render_sources on one element of sources
RenderSource(source) ==
    IF source.t # "dict" THEN Raise(GetAttributeError(source))
    ELSE IF DictGet(source.v, <<"metadata">>, PyDict(<<>>)).t # "dict"
        THEN Raise(GetAttributeError(DictGet(source.v, <<"metadata">>, PyDict(<<>>))))
    ELSE NoRaise

RECURSIVE RenderSourceList(_)
RenderSourceList(elems) ==
    IF elems = <<>> THEN NoRaise
    ELSE IF RenderSource(Head(elems)).raised THEN RenderSource(Head(elems))
    ELSE RenderSourceList(Tail(elems))

\* render_sources(sources) for a truthy sources value: enumerate() goes over the
\* elements of a list, the keys of a dict, the characters of a str
render_sources(sources) ==
    IF sources.t = "list" THEN RenderSourceList(sources.v)
    ELSE IF sources.t \in {"dict", "str"} THEN Raise(GetAttributeError(PyStr(<<>>)))
    ELSE Raise(<<"'", sources.t, "' object is not iterable">>)

\* send_message, lines 152-161: tools, content, sources
RenderResult(msg) ==
    IF msg.tools # <<>> /\ render_tools(msg.tools).raised THEN render_tools(msg.tools)
    ELSE IF Truthy(msg.sources) THEN render_sources(msg.sources)
    ELSE NoRaise

Min(a, b) == IF a <= b THEN a ELSE b

\* the columns st.columns(min(3, len(questions))) makes
MaxColumns == 3

\* the suggested questions that get a button: zip(cols, questions)
Buttons(questions) ==
    IF questions.t = "list" /\ Truthy(questions)
    THEN SubSeq(questions.v, 1, Min(MaxColumns, Len(questions.v)))
    ELSE <<>>

\* len(questions) of a truthy value that has no len()
ColumnsRaise(questions) ==
    IF Truthy(questions) /\ questions.t \in {"int", "bool"}
    THEN Raise(<<"object of type '", questions.t, "' has no len()">>)
    ELSE NoRaise

----------------------------------------------------------------------------
(* Bounds and the inputs of the model *)

\* requests for a turn (chat submits, starter clicks, question clicks)
MaxTurns == 2
\* response lines delivered to the session
MaxLines == 2
\* files the sidebar accepts
MaxFiles == 2
\* the length of the lines the decoder is run on exhaustively
MaxLineLen == 4
\* the lines of a response the aggregator is run on exhaustively
MaxResponseLines == 3
\* the calls of get_chat_config that are counted
MaxConfigCalls == 2
\* the calls of initialize_session_state on one session state
MaxInitCalls == 2

\* the script runs of one session that can be alive at once: a widget event
\* that arrives while a run waits for the backend starts a second run over the
\* same st.session_state
Runs == {1, 2}

\* the JSON text of a string literal
Quoted(word) == <<"\"", word, "\"">>
\* a side-data line 8:[{"type":<kind>,"data":<json>}]
DataLine(kind, json) ==
    <<"8", ":", "[", "{">> \o Quoted("type") \o <<":">> \o Quoted(kind) \o <<",">>
    \o Quoted("data") \o <<":">> \o json \o <<"}", "]">>

TextLine == <<"0", ":">> \o Quoted("a")
ErrorLine == <<"3", ":">> \o Quoted("boom")
BadJsonLine == <<"0", ":", "{">>
QuestionsLine == DataLine("suggested_questions", <<"[">> \o Quoted("q") \o <<"]">>)
BadToolLine == DataLine("tools", <<"1">>)
NumberTextLine == <<"0", ":", "1">>

\* the lines a response of the session model is made of
SessionLines ==
    {TextLine, ErrorLine, BadJsonLine, QuestionsLine, BadToolLine, NumberTextLine}

\* what the user types into the chat input
Prompts == {<<"hi">>}

\* str(e) of the exceptions of requests
ConnectionFailure == <<"connection refused">>
StatusFailure == <<"500 Server Error">>
StreamFailure == <<"connection broken">>

\* GET /api/chat/config: a configuration with one starter question, an empty one
StarterConfig ==
    PyDict(<<[k |-> <<"starterQuestions">>, val |-> PyList(<<PyStr(<<"start">>)>>)]>>)
ConfigResponses == {StarterConfig, PyDict(<<>>)}
\* what get_chat_config returns when the request fails
FallbackConfig == PyDict(<<[k |-> <<"starterQuestions">>, val |-> PyList(<<>>)]>>)

\* what POST /api/chat/upload returns
FileRefs == {PyDict(<<[k |-> <<"name">>, val |-> PyStr(<<"a.pdf">>)]>>)}
\* config.py: MAX_FILE_SIZE, in MB
MAX_FILE_SIZE == 10
FileSizes == {MAX_FILE_SIZE, MAX_FILE_SIZE + 1}

----------------------------------------------------------------------------
(* State *)

VARIABLES
    messages,       \* st.session_state.messages
    files,          \* st.session_state.files
    chat_config,    \* st.session_state.chat_config
    is_processing,  \* st.session_state.is_processing
    next_question,  \* st.session_state.next_question
    pc,             \* per script run: the statement it is at
    ret,            \* per script run: where send_message returns to
    trigger,        \* per script run: the widget event that started it
    local,          \* per script run: the locals of send_message
    obs,            \* per script run: what the current call of send_message did
    stop_requested, \* per script run: the session has replaced it by a newer run
    turns,          \* requests for a turn so far
    nlines,         \* response lines delivered so far
    line,           \* the argument of process_streaming_line (decoder runs)
    processed,      \* its result
    response,       \* the lines of response.iter_lines() (aggregator runs)
    consumed,       \* how many of them the loop has taken
    pending,        \* the accumulators of render_streaming_message
    result,         \* how render_streaming_message ended
    config_calls,   \* calls of get_chat_config so far, counted up to MaxConfigCalls
    startup         \* st.session_state with its keys, and the calls of
                    \* initialize_session_state on it (initialisation runs)

session == <<messages, files, chat_config, is_processing, next_question>>
decoder == <<line, processed>>
aggregator == <<response, consumed, pending, result>>
vars == <<messages, files, chat_config, is_processing, next_question,
          pc, ret, trigger, local, obs, stop_requested, turns, nlines,
          line, processed, response, consumed, pending, result, config_calls,
          startup>>

NoTrigger == [kind |-> "none", text |-> <<>>, n |-> 0, m |-> 0]
NoExc == [kind |-> "none", text |-> <<>>]
NoLocal == [message |-> <<>>, payload |-> <<>>, acc |-> FreshTurn, exc |-> NoExc]
NoObs == [phase |-> "none", busy |-> FALSE, appended |-> <<>>, failure |-> "none",
          description |-> <<>>, path |-> "none", attached |-> <<>>, lines |-> <<>>]
NotCalled == [raised |-> FALSE, type |-> "pending", data |-> PyNone]
\* render_streaming_message is in its loop
Streaming == [state |-> "streaming", exc |-> <<>>]

\* no response is being aggregated outside the session
NoResponse ==
    /\ response = <<>>
    /\ consumed = 0
    /\ pending = FreshTurn
    /\ result = Streaming

\* the keys initialize_session_state looks for
Keys == {"messages", "files", "chat_config", "is_processing", "next_question"}

\* the value initialize_session_state gives a key that is absent
Default(key) ==
    CASE key = "messages" -> PyList(<<>>)
      [] key = "files" -> PyList(<<>>)
      [] key = "chat_config" -> PyDict(<<>>)
      [] key = "is_processing" -> PyBool(FALSE)
      [] key = "next_question" -> PyNone

\* every key is assigned, present or not
initialize_session_state_resetting(state) == [key \in Keys |-> Default(key)]

\* utils/session.py: initialize_session_state on a session state, a function
\* from the keys that are present to their values
initialize_session_state(state) ==
    [key \in Keys \cup DOMAIN state |->
        IF key \in DOMAIN state THEN state[key] ELSE Default(key)]

\* no session state is being initialised outside the session
NoStartup == [session_state |-> <<>>, calls |-> 0]

\* utils/session.py: initialize_session_state, on the first run of a session
InitSession ==
    /\ messages = <<>>
    /\ files = <<>>
    /\ chat_config = PyDict(<<>>)
    /\ is_processing = FALSE
    /\ next_question = PyNone

InitRuns ==
    /\ pc = [r \in Runs |-> "idle"]
    /\ ret = [r \in Runs |-> "idle"]
    /\ trigger = [r \in Runs |-> NoTrigger]
    /\ local = [r \in Runs |-> NoLocal]
    /\ obs = [r \in Runs |-> NoObs]
    /\ stop_requested = [r \in Runs |-> FALSE]
    /\ turns = 0
    /\ nlines = 0

Init ==
    /\ InitSession
    /\ InitRuns
    /\ line = <<>>
    /\ processed = NotCalled
    /\ NoResponse
    /\ config_calls = 0
    /\ startup = NoStartup

----------------------------------------------------------------------------
(* utils/session.py *)

\* the message is written over the last one
add_message_in_place(msgs, message) ==
    IF msgs = <<>> THEN <<message>> ELSE [msgs EXCEPT ![Len(msgs)] = message]

\* add_message(role, content, **kwargs)
add_message(msgs, message) == Append(msgs, message)
UserMessage(content) == [role |-> "user", content |-> content]
ErrorMessage(text) == [role |-> "assistant", content |-> <<"Error: ">> \o text]

\* the optional fields of a message, as every reader of the history takes them
\* ("tools" in message and message["tools"])
ToolsOf(message) == IF "tools" \in DOMAIN message THEN message.tools ELSE <<>>
SourcesOf(message) ==
    IF "sources" \in DOMAIN message THEN message.sources ELSE PyList(<<>>)
QuestionsOf(message) ==
    IF "suggested_questions" \in DOMAIN message
    THEN message.suggested_questions ELSE PyList(<<>>)

----------------------------------------------------------------------------
(* app.py: main, one script run *)

\* the starter-question buttons render_starter_questions draws
StarterButtons ==
    IF messages = <<>> /\ chat_config.t = "dict"
       /\ Truthy(DictGet(chat_config.v, <<"starterQuestions">>, PyNone))
    THEN Buttons(DictGet(chat_config.v, <<"starterQuestions">>, PyNone))
    ELSE <<>>

\* the widget events a user can send to the session in its present state
TurnTriggers ==
    {[kind |-> "chat", text |-> p, n |-> 0, m |-> 0] : p \in Prompts}
    \cup {[kind |-> "starter", text |-> <<>>, n |-> i, m |-> 0] :
            i \in 1..Len(StarterButtons)}
    \cup {[kind |-> "question", text |-> <<>>, n |-> i, m |-> j] :
            i \in 1..Len(messages), j \in 1..MaxColumns}

FileTriggers ==
    {[kind |-> "add_file", text |-> <<>>, n |-> size, m |-> ok] :
        size \in {sz \in FileSizes : Len(files) < MaxFiles}, ok \in {0, 1}}
    \cup {[kind |-> "remove_file", text |-> <<>>, n |-> i, m |-> 0] :
            i \in 1..Len(files)}
    \cup {[kind |-> "clear_files", text |-> <<>>, n |-> 0, m |-> 0]}

\* the backend is answering a run: it sits in requests.post or in iter_lines
Waiting == {"post", "stream"}

\* a widget event (or a page load) starts a script run.  A run of the session
\* that is still alive is asked to stop and goes on until its next call into
\* st.* (Streamlit, runner.fastReruns).  The events of the model arrive while
\* every other run is idle or waits for the backend; page loads and sidebar
\* events arrive while no run is alive.
RunScript(r, tr) ==
    /\ pc[r] = "idle"
    /\ \A o \in Runs \ {r} : pc[o] \in {"idle"} \cup Waiting
    /\ \A o \in 1..(r - 1) : pc[o] # "idle"
    /\ \/ /\ tr \in {NoTrigger} \cup FileTriggers
          /\ \A o \in Runs : pc[o] = "idle"
          /\ turns' = turns
       \/ tr \in TurnTriggers /\ turns < MaxTurns /\ turns' = turns + 1
    /\ tr.kind = "question" =>
          /\ messages[tr.n].role = "assistant"
          /\ tr.m <= Len(Buttons(QuestionsOf(messages[tr.n])))
    /\ pc' = [pc EXCEPT ![r] = "config"]
    /\ trigger' = [trigger EXCEPT ![r] = tr]
    /\ obs' = [obs EXCEPT ![r] = NoObs]
    /\ stop_requested' = [o \in Runs |-> o # r /\ pc[o] # "idle"]
    /\ UNCHANGED <<session, ret, local, nlines, decoder, aggregator, config_calls, startup>>

\* st.rerun(): the run ends and the script starts again without a widget event
Rerun(r) ==
    /\ pc' = [pc EXCEPT ![r] = "config"]
    /\ trigger' = [trigger EXCEPT ![r] = NoTrigger]

\* a call of send_message(message) that returns to statement back
Call(r, message, back) ==
    /\ pc' = [pc EXCEPT ![r] = "start"]
    /\ ret' = [ret EXCEPT ![r] = back]
    /\ local' = [local EXCEPT ![r] = [NoLocal EXCEPT !.message = message]]

\* main, lines 77-78: the configuration is fetched when the session has none
FetchChatConfig(r) ==
    /\ pc[r] = "config"
    /\ IF Truthy(chat_config) THEN UNCHANGED <<chat_config, config_calls>>
       ELSE /\ chat_config' \in ConfigResponses \cup {FallbackConfig}
            /\ config_calls' = Min(config_calls + 1, MaxConfigCalls)
    /\ pc' = [pc EXCEPT ![r] = "sidebar"]
    /\ UNCHANGED <<messages, files, is_processing, next_question,
                   ret, trigger, local, obs, turns, nlines, stop_requested,
                   decoder, aggregator, startup>>

\* files.pop(i)
Pop(s, i) == SubSeq(s, 1, i - 1) \o SubSeq(s, i + 1, Len(s))

\* components/sidebar.py: render_sidebar
RenderSidebar(r) ==
    /\ pc[r] = "sidebar"
    /\ CASE trigger[r].kind = "add_file" ->
              /\ \E file \in FileRefs :
                    files' = IF trigger[r].n <= MAX_FILE_SIZE /\ trigger[r].m = 1
                             THEN Append(files, file) ELSE files
              /\ pc' = [pc EXCEPT ![r] = "queued"]
              /\ UNCHANGED trigger
         [] trigger[r].kind = "remove_file" /\ trigger[r].n <= Len(files) ->
              /\ files' = Pop(files, trigger[r].n)
              /\ Rerun(r)
         [] trigger[r].kind = "clear_files" /\ Len(files) > 1 ->
              /\ files' = <<>>
              /\ Rerun(r)
         [] OTHER ->
              /\ pc' = [pc EXCEPT ![r] = "queued"]
              /\ UNCHANGED <<files, trigger>>
    /\ UNCHANGED <<messages, chat_config, is_processing, next_question,
                   ret, local, obs, turns, nlines, stop_requested, decoder, aggregator, config_calls, startup>>

\* a queued question is sent and stays queued
DispatchKeepsQuestion(r) ==
    /\ pc[r] = "queued"
    /\ IF Truthy(next_question)
       THEN Call(r, next_question.v, "starter")
       ELSE /\ pc' = [pc EXCEPT ![r] = "starter"]
            /\ UNCHANGED <<ret, local>>
    /\ UNCHANGED <<session, trigger, obs, turns, nlines, stop_requested,
                   decoder, aggregator, config_calls, startup>>

\* main, lines 87-91: a queued question is taken and sent
DispatchNextQuestion(r) ==
    /\ pc[r] = "queued"
    /\ IF Truthy(next_question)
       THEN /\ next_question' = PyNone
            /\ Call(r, next_question.v, "starter")
       ELSE /\ pc' = [pc EXCEPT ![r] = "starter"]
            /\ UNCHANGED <<next_question, ret, local>>
    /\ UNCHANGED <<messages, files, chat_config, is_processing,
                   trigger, obs, turns, nlines, stop_requested, decoder, aggregator, config_calls, startup>>

\* main, lines 94-95, and render_starter_questions
RenderStarterQuestions(r) ==
    /\ pc[r] = "starter"
    /\ IF trigger[r].kind = "starter" /\ trigger[r].n <= Len(StarterButtons)
       THEN Call(r, StarterButtons[trigger[r].n].v, "history")
       ELSE /\ pc' = [pc EXCEPT ![r] = "history"]
            /\ UNCHANGED <<ret, local>>
    /\ UNCHANGED <<session, trigger, obs, turns, nlines, stop_requested, decoder, aggregator, config_calls, startup>>

\* display_chat_history with a click handler that sends the question itself
DisplayChatHistorySendsNow(r) ==
    /\ pc[r] = "history"
    /\ IF /\ trigger[r].kind = "question"
          /\ trigger[r].m <= Len(Buttons(QuestionsOf(messages[trigger[r].n])))
       THEN /\ next_question' =
                  Buttons(QuestionsOf(messages[trigger[r].n]))[trigger[r].m]
            /\ Call(r, Buttons(QuestionsOf(messages[trigger[r].n]))[trigger[r].m].v,
                    "input")
            /\ trigger' = [trigger EXCEPT ![r] = NoTrigger]
       ELSE /\ pc' = [pc EXCEPT ![r] = "input"]
            /\ UNCHANGED <<next_question, trigger, ret, local>>
    /\ UNCHANGED <<messages, files, chat_config, is_processing,
                   obs, turns, nlines, stop_requested, decoder, aggregator, config_calls, startup>>

\* display_chat_history: the click of a suggested question queues it and reruns
DisplayChatHistory(r) ==
    /\ pc[r] = "history"
    /\ IF /\ trigger[r].kind = "question"
          /\ trigger[r].m <= Len(Buttons(QuestionsOf(messages[trigger[r].n])))
       THEN /\ next_question' =
                  Buttons(QuestionsOf(messages[trigger[r].n]))[trigger[r].m]
            /\ Rerun(r)
       ELSE /\ pc' = [pc EXCEPT ![r] = "input"]
            /\ UNCHANGED <<next_question, trigger>>
    /\ UNCHANGED <<messages, files, chat_config, is_processing,
                   ret, local, obs, turns, nlines, stop_requested, decoder, aggregator, config_calls, startup>>

\* the end of a script run
EndRun(r) ==
    /\ pc' = [pc EXCEPT ![r] = "idle"]
    /\ ret' = [ret EXCEPT ![r] = "idle"]
    /\ trigger' = [trigger EXCEPT ![r] = NoTrigger]
    /\ local' = [local EXCEPT ![r] = NoLocal]

\* main, lines 102-103: the chat input, the last element of the page.  The
\* prompt was typed into the input an earlier run drew, so the disabled flag
\* of this run does not hold it back.
ChatInput(r) ==
    /\ pc[r] = "input"
    /\ IF trigger[r].kind = "chat"
       THEN /\ Call(r, trigger[r].text, "idle")
            /\ UNCHANGED trigger
       ELSE EndRun(r)
    /\ UNCHANGED <<session, obs, turns, nlines, stop_requested, decoder, aggregator, config_calls, startup>>

----------------------------------------------------------------------------
(* components/chat_interface.py: send_message, statement by statement *)

\* the statements of send_message
InSendMessage ==
    {"start", "user", "payload", "post", "stream", "render", "buttons",
     "commit", "except", "finally", "return"}
\* the statements between start_processing() and end_processing()
InFlight == InSendMessage \ {"start", "return"}

\* an exception of class Exception raised inside the try block
Caught(text) == [kind |-> "Exception", text |-> text]
\* the RerunException of st.rerun() and the StopException a replaced run gets
\* from its next call into st.*: neither is a subclass of Exception
RerunException == [kind |-> "Rerun", text |-> <<>>]
StopException == [kind |-> "Stop", text |-> <<>>]

\* line 101: start_processing()
StartProcessing(r) ==
    /\ pc[r] = "start"
    /\ is_processing' = TRUE
    /\ obs' = [obs EXCEPT ![r] = [NoObs EXCEPT !.phase = "running",
                                               !.busy = is_processing]]
    /\ pc' = [pc EXCEPT ![r] = "user"]
    /\ UNCHANGED <<messages, files, chat_config, next_question,
                   ret, trigger, local, turns, nlines, stop_requested, decoder, aggregator, config_calls, startup>>

\* line 108: add_message("user", message)
AddUserMessage(r) ==
    /\ pc[r] = "user"
    /\ messages' = add_message(messages, UserMessage(local[r].message))
    /\ obs' = [obs EXCEPT ![r].appended = Append(@, UserMessage(local[r].message))]
    /\ pc' = [pc EXCEPT ![r] = "payload"]
    /\ UNCHANGED <<files, chat_config, is_processing, next_question,
                   ret, trigger, local, turns, nlines, stop_requested, decoder, aggregator, config_calls, startup>>

\* the whole messages in place of their projection
ProjectionWhole(msgs) == msgs

\* lines 115-120: the history projected to role and content
Projection(msgs) ==
    [i \in 1..Len(msgs) |-> [role |-> msgs[i].role, content |-> msgs[i].content]]

\* lines 123-127: the file annotation on the last message of the payload
Annotated(entry, attached) ==
    [role |-> entry.role, content |-> entry.content,
     annotations |-> <<[type |-> "document_file", data |-> [files |-> attached]]>>]

\* the payload is made of the dicts of the history themselves: the annotation
\* lands on the stored message
BuildPayloadOnHistory(r) ==
    /\ pc[r] = "payload"
    /\ LET plain == Projection(messages) IN
       IF files # <<>>
       THEN /\ local' = [local EXCEPT ![r].payload =
                  [plain EXCEPT ![Len(plain)] = Annotated(@, files)]]
            /\ messages' = [messages EXCEPT ![Len(messages)] = Annotated(@, files)]
            /\ files' = <<>>
       ELSE /\ local' = [local EXCEPT ![r].payload = plain]
            /\ UNCHANGED <<messages, files>>
    /\ obs' = [obs EXCEPT ![r].attached = files]
    /\ pc' = [pc EXCEPT ![r] = "post"]
    /\ UNCHANGED <<chat_config, is_processing, next_question,
                   ret, trigger, turns, nlines, stop_requested,
                   decoder, aggregator, config_calls, startup>>

\* the payload is built and the pending files stay in the session
BuildPayloadKeepsFiles(r) ==
    /\ pc[r] = "payload"
    /\ LET plain == Projection(messages) IN
       IF files # <<>>
       THEN local' = [local EXCEPT ![r].payload =
                  [plain EXCEPT ![Len(plain)] = Annotated(@, files)]]
       ELSE local' = [local EXCEPT ![r].payload = plain]
    /\ obs' = [obs EXCEPT ![r].attached = files]
    /\ pc' = [pc EXCEPT ![r] = "post"]
    /\ UNCHANGED <<session, ret, trigger, turns, nlines, stop_requested,
                   decoder, aggregator, config_calls, startup>>

\* lines 115-130: the payload is built and the pending files are taken
BuildPayload(r) ==
    /\ pc[r] = "payload"
    /\ LET plain == Projection(messages) IN
       IF files # <<>>
       THEN /\ local' = [local EXCEPT ![r].payload =
                  [plain EXCEPT ![Len(plain)] = Annotated(@, files)]]
            /\ files' = <<>>
       ELSE /\ local' = [local EXCEPT ![r].payload = plain]
            /\ UNCHANGED files
    /\ obs' = [obs EXCEPT ![r].attached = files]
    /\ pc' = [pc EXCEPT ![r] = "post"]
    /\ UNCHANGED <<messages, chat_config, is_processing, next_question,
                   ret, trigger, turns, nlines, stop_requested, decoder, aggregator, config_calls, startup>>

\* control leaves the try block with an exception: to the except clause when
\* it is an Exception, past it otherwise; the payload is not read again
RaiseIn(r, exc) ==
    /\ local' = [local EXCEPT ![r].exc = exc, ![r].payload = <<>>]
    /\ pc' = [pc EXCEPT ![r] = IF exc.kind = "Exception" THEN "except" ELSE "finally"]

\* a transport failure, written down for the properties
TransportFailure(r, text) ==
    obs' = [obs EXCEPT ![r].failure = "transport", ![r].description = text]

\* lines 139-140: the request fails, or answers with an error status
PostFails(r, text) ==
    /\ pc[r] = "post"
    /\ RaiseIn(r, Caught(text))
    /\ TransportFailure(r, text)
    /\ UNCHANGED <<session, ret, trigger, turns, nlines, stop_requested, decoder, aggregator, config_calls, startup>>

\* lines 139-143: the response arrives and render_streaming_message starts,
\* with st.container() as its first statement
PostSucceeds(r) ==
    /\ pc[r] = "post"
    /\ IF stop_requested[r]
       THEN RaiseIn(r, StopException)
       ELSE /\ local' = [local EXCEPT ![r].acc = FreshTurn, ![r].payload = <<>>]
            /\ pc' = [pc EXCEPT ![r] = "stream"]
    /\ UNCHANGED <<session, ret, trigger, obs, turns, nlines, stop_requested, decoder, aggregator, config_calls, startup>>

\* a line that reports a failure of the turn: a 3: line, or a known prefix
\* whose payload is no JSON
FailureLine(raw) == raw # <<>> /\ process_streaming_line(raw).type = "error"

\* a line after which message_placeholder.markdown is called
Redraws(raw) == raw # <<>> /\ process_streaming_line(raw).type \in {"text", "error"}

\* render_streaming_message, lines 52-82: one line of the response
StreamLine(r, raw) ==
    /\ pc[r] = "stream"
    /\ nlines < MaxLines
    /\ nlines' = nlines + 1
    /\ LET step == Consume(local[r].acc, raw) IN
       IF step.raised THEN RaiseIn(r, Caught(step.exc))
       ELSE IF stop_requested[r] /\ Redraws(raw) THEN RaiseIn(r, StopException)
       ELSE /\ local' = [local EXCEPT ![r].acc = step.acc]
            /\ UNCHANGED pc
    /\ obs' = [obs EXCEPT ![r].failure = IF FailureLine(raw) THEN "line" ELSE @,
                          ![r].lines = Append(@, raw)]
    /\ UNCHANGED <<session, ret, trigger, turns, stop_requested, decoder, aggregator, config_calls, startup>>

\* the connection breaks while iter_lines waits for the next line
StreamFails(r) ==
    /\ pc[r] = "stream"
    /\ RaiseIn(r, Caught(StreamFailure))
    /\ TransportFailure(r, StreamFailure)
    /\ UNCHANGED <<session, ret, trigger, turns, nlines, stop_requested, decoder, aggregator, config_calls, startup>>

\* the response closes: render_streaming_message returns
StreamEnds(r) ==
    /\ pc[r] = "stream"
    /\ pc' = [pc EXCEPT ![r] = "render"]
    /\ UNCHANGED <<session, ret, trigger, local, obs, turns, nlines,
                   stop_requested, decoder, aggregator, config_calls, startup>>

\* lines 152-161: tools, content and sources of the result are drawn
RenderAssistant(r) ==
    /\ pc[r] = "render"
    /\ LET drawn == RenderResult(AssistantMessage(local[r].acc)) IN
       IF stop_requested[r] THEN RaiseIn(r, StopException)
       ELSE IF drawn.raised THEN RaiseIn(r, Caught(drawn.exc))
       ELSE /\ pc' = [pc EXCEPT ![r] = "buttons"]
            /\ UNCHANGED local
    /\ UNCHANGED <<session, ret, trigger, obs, turns, nlines, stop_requested, decoder, aggregator, config_calls, startup>>

\* lines 164-169: the buttons of the suggested questions, none of them clicked
RenderButtons(r) ==
    /\ pc[r] = "buttons"
    /\ LET cols == ColumnsRaise(local[r].acc.suggested_questions) IN
       IF cols.raised
       THEN RaiseIn(r, Caught(cols.exc))
       ELSE /\ pc' = [pc EXCEPT ![r] = "commit"]
            /\ UNCHANGED local
    /\ UNCHANGED <<session, ret, trigger, obs, turns, nlines, stop_requested, decoder, aggregator, config_calls, startup>>

\* lines 169-173: st.button reports a click: the question is queued, st.rerun()
ClickInTurn(r, j) ==
    /\ pc[r] = "buttons"
    /\ j <= Len(Buttons(local[r].acc.suggested_questions))
    /\ turns < MaxTurns
    /\ turns' = turns + 1
    /\ next_question' = Buttons(local[r].acc.suggested_questions)[j]
    /\ RaiseIn(r, RerunException)
    /\ UNCHANGED <<messages, files, chat_config, is_processing,
                   ret, trigger, obs, nlines, stop_requested, decoder, aggregator, config_calls, startup>>

\* lines 176-182: the result goes to the history
CommitAssistant(r) ==
    /\ pc[r] = "commit"
    /\ messages' = add_message(messages, AssistantMessage(local[r].acc))
    /\ obs' = [obs EXCEPT ![r].appended = Append(@, AssistantMessage(local[r].acc)),
                          ![r].path = "commit"]
    /\ pc' = [pc EXCEPT ![r] = "finally"]
    /\ UNCHANGED <<files, chat_config, is_processing, next_question,
                   ret, trigger, local, turns, nlines, stop_requested, decoder, aggregator, config_calls, startup>>

\* the except clause leaving send_message without the finally clause
AfterExceptSkipsFinally == "return"

\* where control goes after the except clause: the finally clause
AfterExcept == "finally"

\* lines 184-188: except Exception: st.error, then the error goes to the history
HandleException(r) ==
    /\ pc[r] = "except"
    /\ IF stop_requested[r]
       THEN /\ RaiseIn(r, StopException)
            /\ UNCHANGED <<messages, obs>>
       ELSE /\ messages' = add_message(messages, ErrorMessage(local[r].exc.text))
            /\ obs' = [obs EXCEPT
                         ![r].appended = Append(@, ErrorMessage(local[r].exc.text)),
                         ![r].path = "except"]
            /\ pc' = [pc EXCEPT ![r] = AfterExcept]
            /\ UNCHANGED local
    /\ UNCHANGED <<files, chat_config, is_processing, next_question,
                   ret, trigger, turns, nlines, stop_requested, decoder, aggregator, config_calls, startup>>

\* end_processing leaving the flag set
EndProcessingKeepsFlag == TRUE

\* utils/session.py, end_processing: the value it gives is_processing
end_processing == FALSE

\* lines 190-192: finally: end_processing()
Finally(r) ==
    /\ pc[r] = "finally"
    /\ is_processing' = end_processing
    /\ obs' = [obs EXCEPT ![r].phase = "returned",
                          ![r].path = IF local[r].exc.kind = "Rerun" THEN "rerun"
                                      ELSE IF local[r].exc.kind = "Stop" THEN "stop"
                                      ELSE @]
    /\ pc' = [pc EXCEPT ![r] = "return"]
    /\ UNCHANGED <<messages, files, chat_config, next_question,
                   ret, trigger, local, turns, nlines, stop_requested, decoder, aggregator, config_calls, startup>>

\* send_message is left: the caller goes on, or the StopException ends the
\* run, or the RerunException starts the script again
Return(r) ==
    /\ pc[r] = "return"
    /\ IF local[r].exc.kind = "Stop" \/ (local[r].exc.kind # "Rerun" /\ ret[r] = "idle")
       THEN EndRun(r)
       ELSE /\ IF local[r].exc.kind = "Rerun"
               THEN Rerun(r)
               ELSE pc' = [pc EXCEPT ![r] = ret[r]] /\ UNCHANGED trigger
            /\ ret' = [ret EXCEPT ![r] = "idle"]
            /\ local' = [local EXCEPT ![r] = NoLocal]
    /\ obs' = [obs EXCEPT ![r] = NoObs]
    /\ UNCHANGED <<session, turns, nlines, stop_requested, decoder, aggregator, config_calls, startup>>

----------------------------------------------------------------------------
(* The session *)

\* a step of script run r after it has started
RunStep(r) ==
    \/ FetchChatConfig(r)
    \/ RenderSidebar(r)
    \/ DispatchNextQuestion(r)
    \/ RenderStarterQuestions(r)
    \/ DisplayChatHistory(r)
    \/ ChatInput(r)
    \/ StartProcessing(r)
    \/ AddUserMessage(r)
    \/ BuildPayload(r)
    \/ \E text \in {ConnectionFailure, StatusFailure} : PostFails(r, text)
    \/ PostSucceeds(r)
    \/ \E raw \in SessionLines : StreamLine(r, raw)
    \/ StreamFails(r)
    \/ StreamEnds(r)
    \/ RenderAssistant(r)
    \/ RenderButtons(r)
    \/ \E j \in 1..MaxColumns : ClickInTurn(r, j)
    \/ CommitAssistant(r)
    \/ HandleException(r)
    \/ Finally(r)
    \/ Return(r)

Next ==
    \/ \E r \in Runs : \E tr \in {NoTrigger} \cup FileTriggers \cup TurnTriggers :
          RunScript(r, tr)
    \/ \E r \in Runs : RunStep(r)

Spec == Init /\ [][Next]_vars

\* every script run that has started goes on until it ends: the interpreter
\* executes the script, and a request to the backend answers, closes or fails
FairSpec == Spec /\ \A r \in Runs : WF_vars(RunStep(r))

----------------------------------------------------------------------------
(* The decoder on its own: process_streaming_line applied to one line *)

\* the characters of the lines the decoder is run on exhaustively
Alphabet == {"0", "8", "3", ":", "\"", "[", "]", "1", " ", ",", "{", "}"}

RECURSIVE LinesUpTo(_)
\* every line of at most n characters
LinesUpTo(n) ==
    IF n = 0 THEN {<<>>}
    ELSE LET shorter == LinesUpTo(n - 1) IN
         shorter \cup {Append(l, c) : l \in {k \in shorter : Len(k) = n - 1},
                                      c \in Alphabet}

SourcesLine ==
    DataLine("sources", <<"{">> \o Quoted("nodes") \o <<":", "[", "]", "}">>)
NullErrorLine == <<"3", ":", "n", "u", "l", "l">>
UnknownPrefixLine == <<"2", ":">> \o Quoted("a")

DecoderLines ==
    LinesUpTo(MaxLineLen) \cup SessionLines
    \cup {SourcesLine, NullErrorLine, UnknownPrefixLine}

InitDecode ==
    /\ InitSession
    /\ InitRuns
    /\ line \in DecoderLines
    /\ processed = NotCalled
    /\ NoResponse
    /\ config_calls = 0
    /\ startup = NoStartup

\* processed = process_streaming_line(line)
Decode ==
    /\ processed = NotCalled
    /\ processed' = process_streaming_line(line)
    /\ UNCHANGED <<session, pc, ret, trigger, local, obs, stop_requested,
                   turns, nlines, line, aggregator, config_calls, startup>>

NextDecode == Decode

SpecDecode == InitDecode /\ [][NextDecode]_vars

----------------------------------------------------------------------------
(* The aggregator on its own: render_streaming_message over one response *)

TextLineB == <<"0", ":">> \o Quoted("b")
\* 8:[]
EmptyArrayLine == <<"8", ":", "[", "]">>
\* 8:[1]: the first element is not an object
NumberElementLine == <<"8", ":", "[", "1", "]">>
\* 8:[{"type":"tools"}]: the first element has a type and no data
NoDataLine ==
    <<"8", ":", "[", "{">> \o Quoted("type") \o <<":">> \o Quoted("tools") \o <<"}", "]">>
ToolsLine == DataLine("tools", Quoted("t"))
EventsLine == DataLine("events", Quoted("e"))
OneNodeLine ==
    DataLine("sources", <<"{">> \o Quoted("nodes") \o <<":", "[", "1", "]", "}">>)
OtherNodeLine ==
    DataLine("sources", <<"{">> \o Quoted("nodes") \o <<":", "[", "0", "]", "}">>)
NoNodesLine == DataLine("sources", <<"{", "}">>)
OtherQuestionsLine == DataLine("suggested_questions", <<"[">> \o Quoted("r") \o <<"]">>)
UnknownKindLine == DataLine("usage", Quoted("u"))
\* a line of one blank
BlankLine == <<" ">>

\* the lines a response of the aggregator runs is made of
ResponseLines ==
    {<<>>, TextLine, TextLineB, NumberTextLine, ErrorLine, BadJsonLine,
     UnknownPrefixLine, EmptyArrayLine, NumberElementLine, NoDataLine,
     ToolsLine, EventsLine, SourcesLine, OneNodeLine, OtherNodeLine, NoNodesLine,
     QuestionsLine, OtherQuestionsLine, UnknownKindLine, NullErrorLine, BlankLine}

RECURSIVE ResponsesUpTo(_)
\* every response of at most n lines
ResponsesUpTo(n) ==
    IF n = 0 THEN {<<>>}
    ELSE LET shorter == ResponsesUpTo(n - 1) IN
         shorter \cup {Append(rs, l) : rs \in {k \in shorter : Len(k) = n - 1},
                                       l \in ResponseLines}

InitAggregate ==
    /\ InitSession
    /\ InitRuns
    /\ line = <<>>
    /\ processed = NotCalled
    /\ response \in ResponsesUpTo(MaxResponseLines)
    /\ consumed = 0
    /\ pending = FreshTurn
    /\ result = Streaming
    /\ config_calls = 0
    /\ startup = NoStartup

\* one pass of the loop: the next line is taken and consumed
ConsumeLine ==
    /\ result = Streaming
    /\ consumed < Len(response)
    /\ LET raw == response[consumed + 1]
           step == Consume(pending, raw)
       IN
        /\ consumed' = consumed + 1
        /\ pending' = step.acc
        /\ result' = IF step.raised THEN [state |-> "raised", exc |-> step.exc]
                     ELSE Streaming
        /\ IF Skipped(raw) THEN UNCHANGED decoder
           ELSE line' = raw /\ processed' = process_streaming_line(raw)
    /\ UNCHANGED <<session, pc, ret, trigger, local, obs, stop_requested,
                   turns, nlines, response, config_calls, startup>>

\* the lines are exhausted: the function returns the dict of its accumulators
ReturnMessage ==
    /\ result = Streaming
    /\ consumed = Len(response)
    /\ result' = [state |-> "returned", exc |-> <<>>]
    /\ UNCHANGED <<session, pc, ret, trigger, local, obs, stop_requested,
                   turns, nlines, decoder, response, consumed, pending, config_calls, startup>>

NextAggregate == ConsumeLine \/ ReturnMessage

SpecAggregate == InitAggregate /\ [][NextAggregate]_vars

----------------------------------------------------------------------------
(* The initialisation on its own: initialize_session_state on a session state *)

\* the values a key can hold when a script run begins
ValuesOf(key) ==
    CASE key = "messages" -> {PyList(<<>>), PyList(<<PyStr(<<"hi">>)>>)}
      [] key = "files" -> {PyList(<<>>), PyList(<<PyStr(<<"a.pdf">>)>>)}
      [] key = "chat_config" -> {PyDict(<<>>), StarterConfig}
      [] key = "is_processing" -> {PyBool(FALSE), PyBool(TRUE)}
      [] key = "next_question" -> {PyNone, PyStr(<<"q">>)}

\* every session state: some of the keys, each with one of its values
SessionStates ==
    UNION {{state \in [present -> UNION {ValuesOf(key) : key \in present}] :
                \A key \in present : state[key] \in ValuesOf(key)} :
           present \in SUBSET Keys}

InitInitialize ==
    /\ InitSession
    /\ InitRuns
    /\ line = <<>>
    /\ processed = NotCalled
    /\ NoResponse
    /\ config_calls = 0
    /\ startup \in [session_state : SessionStates, calls : {0}]

\* main, line 74: initialize_session_state()
Initialize ==
    /\ startup.calls < MaxInitCalls
    /\ startup' = [session_state |-> initialize_session_state(startup.session_state),
                   calls |-> startup.calls + 1]
    /\ UNCHANGED <<session, pc, ret, trigger, local, obs, stop_requested,
                   turns, nlines, decoder, aggregator, config_calls>>

NextInitialize == Initialize

SpecInitialize == InitInitialize /\ [][NextInitialize]_vars

----------------------------------------------------------------------------
(* Properties *)

\* the calls of send_message that have reached their return
Returning == {r \in Runs : pc[r] = "return"}

\* C1 (busy rejection): a call of send_message that finds is_processing
\* already true is refused: it appends neither a user message nor an
\* assistant message to the history and starts no second turn.
C1_BusyRejection ==
    \A r \in Runs : obs[r].busy => obs[r].appended = <<>>

\* C2 (mutual exclusion of turns): in every reachable state at most one turn
\* of the session is between start_processing and end_processing.
C2_MutualExclusion == Cardinality({r \in Runs : pc[r] \in InFlight}) <= 1

C4_OneReplyPerTurn ==
    \A r \in Returning :
        /\ Len(obs[r].appended) = 2
        /\ obs[r].appended[1] = UserMessage(local[r].message)
        /\ obs[r].appended[2].role = "assistant"

C6_ErrorsSurfacedInBand ==
    \A r \in Returning :
        obs[r].failure # "none" =>
            /\ Len(obs[r].appended) = 2
            /\ obs[r].appended[2].role = "assistant"
            /\ StartsWith(obs[r].appended[2].content, <<"Error: ">>)

\* C7 (transport-failure recovery): when the request of a turn fails, before
\* or during streaming, the history ends with the user message of the turn
\* followed by one assistant message that has the content "Error: " + the
\* failure description and no tools, sources or suggested questions.
C7_TransportFailureRecovery ==
    \A r \in Returning :
        obs[r].failure = "transport" =>
            /\ Len(messages) >= 2
            /\ messages[Len(messages) - 1] = UserMessage(local[r].message)
            /\ messages[Len(messages)] = ErrorMessage(obs[r].description)

KnownPrefixes == {<<"0", ":">>, <<"8", ":">>, <<"3", ":">>}
HasPrefix(prefix) == StartsWith(line, prefix)
ValidPayload == JsonLoads(Payload(line)).ok
PayloadValue == JsonLoads(Payload(line)).val

\* C9 (prefix mapping): 0:<json> with a valid payload decodes to a text event
\* carrying the payload, 8:<json> with a non-empty array to a data event
\* carrying the first element of the array, 3:<json> with a valid payload to
\* an error event carrying the payload, every other prefix to type None.
C9_PrefixMapping ==
    processed # NotCalled =>
        /\ (HasPrefix(<<"0", ":">>) /\ ValidPayload)
              => processed = Event("text", PayloadValue)
        /\ (HasPrefix(<<"8", ":">>) /\ ValidPayload
               /\ PayloadValue.t = "list" /\ PayloadValue.v # <<>>)
              => processed = Event("data", Head(PayloadValue.v))
        /\ (HasPrefix(<<"3", ":">>) /\ ValidPayload)
              => processed = Event("error", PayloadValue)
        /\ (\A prefix \in KnownPrefixes : ~HasPrefix(prefix))
              => processed = Event("None", PyNone)

\* a side-data line has been decoded to the first element of its array
C9_DecodedSideData ==
    /\ line = QuestionsLine
    /\ processed.type = "data"
    /\ processed.data.t = "dict"
    /\ DictGet(processed.data.v, <<"type">>, PyNone) = PyStr(<<"suggested_questions">>)
    /\ DictGet(processed.data.v, <<"data">>, PyNone) = PyList(<<PyStr(<<"q">>)>>)

\* the parse-failure text of each kind of chunk
ParseFailureText(prefix) ==
    CASE prefix = <<"0", ":">> -> <<"Failed to parse text chunk">>
      [] prefix = <<"8", ":">> -> <<"Failed to parse data chunk">>
      [] prefix = <<"3", ":">> -> <<"Failed to parse error chunk">>

Taking(l) ==
    /\ result = Streaming
    /\ consumed < Len(response)
    /\ response[consumed + 1] = l

\* a first element that is not an object with type and data
Malformed(el) ==
    ~(el.t = "dict" /\ DictHas(el.v, <<"type">>) /\ DictHas(el.v, <<"data">>))

\* an 8: line whose payload is an empty array or begins with a malformed element
NullSideData(l) ==
    /\ StartsWith(l, <<"8", ":">>)
    /\ JsonLoads(Payload(l)).ok
    /\ JsonLoads(Payload(l)).val.t = "list"
    /\ \/ JsonLoads(Payload(l)).val.v = <<>>
       \/ Malformed(JsonLoads(Payload(l)).val.v[1])

\* C11 (null side-data is ignored): an 8: line whose JSON payload is an empty
\* array, or whose first element is not an object with type and data, decodes
\* to a data event with a null payload, and the pass of the loop that takes it
\* leaves content, tools, sources and suggested_questions as they were and
\* raises nothing.
C11_NullSideDataIgnored ==
    [][\A l \in ResponseLines :
        (Taking(l) /\ NullSideData(l)) =>
            /\ process_streaming_line(l) = Event("data", PyNone)
            /\ pending' = pending
            /\ result' = Streaming]_vars

\* the lines the loop has taken so far
Taken == SubSeq(response, 1, consumed)

\* the event a line of the response decodes to
Decoded(l) == process_streaming_line(l)

\* the positions of the events of a type among lines
EventsOf(lines, type) ==
    {i \in 1..Len(lines) : lines[i] # <<>> /\ Decoded(lines[i]).type = type}

RECURSIVE TextPayloads(_)
\* the payloads of the text events of lines, one after the other
TextPayloads(lines) ==
    IF lines = <<>> THEN <<>>
    ELSE (IF Decoded(Head(lines)).type = "text"
          THEN Decoded(Head(lines)).data.v ELSE <<>>)
         \o TextPayloads(Tail(lines))

\* C12 (content accumulation): when render_streaming_message returns after a
\* response without an error event, the content of the message it returns is
\* the concatenation of the payloads of all its text events in arrival order,
\* repeated payloads included; the other lines leave content alone.
C12_ContentAccumulation ==
    (result.state = "returned" /\ EventsOf(response, "error") = {}) =>
        pending.content = TextPayloads(response)

\* the same text payload arrived twice in a row and the message was returned
C12_ReturnedRepeatedDelta ==
    /\ result.state = "returned"
    /\ EventsOf(response, "error") = {}
    /\ \E i \in 1..(Len(response) - 1) :
        response[i] = TextLine /\ response[i + 1] = TextLine
    /\ Len(pending.content) >= 2

\* the type member of the object a line carries as side data, None otherwise
KindOf(l) ==
    IF l # <<>> /\ Decoded(l).type = "data" /\ Decoded(l).data.t = "dict"
    THEN DictGet(Decoded(l).data.v, <<"type">>, PyNone)
    ELSE PyNone

\* the data member of the object a line carries as side data
DataOf(l, default) == DictGet(Decoded(l).data.v, <<"data">>, default)

\* the positions of the side-data events of a kind among lines
SideData(lines, kind) ==
    {i \in 1..Len(lines) : KindOf(lines[i]) = PyStr(<<kind>>)}

\* the last member of a non-empty set of positions
Last(positions) == CHOOSE i \in positions : \A j \in positions : j <= i

RECURSIVE ToolRecords(_)
\* the data of the tools and events events of lines, in the order of the lines
ToolRecords(lines) ==
    IF lines = <<>> THEN <<>>
    ELSE (IF KindOf(Head(lines)) \in {PyStr(<<"tools">>), PyStr(<<"events">>)}
          THEN <<DataOf(Head(lines), PyDict(<<>>))>> ELSE <<>>)
         \o ToolRecords(Tail(lines))

\* C13 (tools append): the tools of the message render_streaming_message
\* returns are the data payloads of all side-data events of kind tools or
\* events, in arrival order across both kinds; no other event of the response
\* drops, replaces or reorders a record.
C13_ToolsAppend ==
    result.state = "returned" => pending.tools = ToolRecords(response)

\* a tools record, then an events record, and the message was returned
C13_ReturnedToolsThenEvents ==
    /\ result.state = "returned"
    /\ \E i, j \in 1..Len(response) :
        i < j /\ response[i] = ToolsLine /\ response[j] = EventsLine
    /\ pending.tools = <<PyStr(<<"t">>), PyStr(<<"e">>)>>

\* C14 (sources replace): the sources of the message render_streaming_message
\* returns are the nodes of the last side-data event of kind sources (the
\* empty list if that event has no nodes or the response has no sources
\* event); earlier sources events contribute nothing.
C14_SourcesReplace ==
    result.state = "returned" =>
        pending.sources =
            IF SideData(response, "sources") = {} THEN PyList(<<>>)
            ELSE DictGet(DataOf(response[Last(SideData(response, "sources"))],
                                PyDict(<<>>)).v,
                         <<"nodes">>, PyList(<<>>))

\* two sources events with different nodes, and the message was returned
C14_ReturnedSecondSources ==
    /\ result.state = "returned"
    /\ \E i, j \in SideData(response, "sources") :
        /\ i < j
        /\ response[i] = OneNodeLine
        /\ response[j] = OtherNodeLine
        /\ j = Last(SideData(response, "sources"))
    /\ pending.sources = PyList(<<PyInt(<<"0">>)>>)

\* C15 (suggested questions replace): the suggested_questions of the message
\* render_streaming_message returns are the data of the last side-data event
\* of kind suggested_questions (the empty list if there is none); earlier
\* events of that kind contribute nothing and tools and sources events never
\* change it.
C15_QuestionsReplace ==
    result.state = "returned" =>
        pending.suggested_questions =
            IF SideData(response, "suggested_questions") = {} THEN PyList(<<>>)
            ELSE DataOf(response[Last(SideData(response, "suggested_questions"))],
                        PyList(<<>>))

\* two suggested_questions events, then a tools or sources event, and the
\* message was returned
C15_ReturnedSecondQuestions ==
    /\ result.state = "returned"
    /\ Len(response) = 3
    /\ response[1] = QuestionsLine
    /\ response[2] = OtherQuestionsLine
    /\ response[3] \in {ToolsLine, OneNodeLine}
    /\ pending.suggested_questions = PyList(<<PyStr(<<"r">>)>>)

\* the step of run r that builds the payload of its request
Builds(r) == pc[r] = "payload" /\ pc'[r] = "post"

\* the keys of the entries of a payload: annotations on the last one when
\* files were pending, role and content everywhere else
EntryKeys(i, n, pendingFiles) ==
    IF i = n /\ pendingFiles # <<>> THEN {"role", "content", "annotations"}
    ELSE {"role", "content"}

\* C16 (outbound payload): the payload a turn builds has one entry for every
\* message of the history, the user message of the turn last, in history
\* order, each with the role and content of its message and nothing else; the
\* last entry, and no other, carries an annotations entry of type
\* document_file exactly when files are pending at that moment, and its files
\* are the pending files.
C16_OutboundPayload ==
    [][\A r \in Runs : Builds(r) =>
        LET sent == local'[r].payload IN
        /\ Len(sent) = Len(messages)
        /\ messages[Len(messages)] = UserMessage(local[r].message)
        /\ \A i \in 1..Len(sent) :
            /\ DOMAIN sent[i] = EntryKeys(i, Len(sent), files)
            /\ sent[i].role = messages[i].role
            /\ sent[i].content = messages[i].content
        /\ files # <<>> =>
            sent[Len(sent)].annotations =
                <<[type |-> "document_file", data |-> [files |-> files]]>>]_vars

\* a second turn has built its payload over a reply of the first, with a file
C16_BuiltWithHistoryAndFile ==
    \E r \in Runs :
        /\ pc[r] = "post"
        /\ Len(local[r].payload) >= 3
        /\ \E i \in 1..Len(messages) : "tools" \in DOMAIN messages[i]
        /\ "annotations" \in DOMAIN local[r].payload[Len(local[r].payload)]
        /\ "annotations" \notin DOMAIN local[r].payload[1]

\* C17 (pending files are consumed once): the step that builds a payload
\* leaves the session's file list empty, the end of the request, failed or
\* not, does not change the list, and only the sidebar puts a file into it:
\* a file that was attached to a payload is in no later one.
C17_FilesConsumedOnce ==
    [][/\ \A r \in Runs : Builds(r) => files' = <<>>
       /\ (files' # files /\ files' # <<>>) => \E r \in Runs : pc[r] = "sidebar"
       /\ \A r \in Runs : (pc[r] = "post" /\ pc'[r] # "post") => files' = files]_vars

\* a turn attached a file, its request failed, and the file list is empty
C17_FailedAfterAttaching ==
    \E r \in Returning :
        /\ obs[r].attached # <<>>
        /\ obs[r].failure = "transport"
        /\ files = <<>>

\* the step of run r that takes the queued question and calls send_message
Dispatches(r) == pc[r] = "queued" /\ pc'[r] = "start"

\* the step of run r in which a button of a suggested question reports a click
Clicks(r) ==
    \/ /\ pc[r] = "history"
       /\ trigger[r].kind = "question"
       /\ pc'[r] # "history"
    \/ /\ pc[r] = "buttons"
       /\ pc'[r] = "finally"
       /\ local'[r].exc = RerunException

C19_ClickOnlyQueues ==
    [][/\ \A r \in Runs : Clicks(r) =>
            /\ Truthy(next_question')
            /\ messages' = messages
            /\ is_processing' = is_processing
            /\ pc'[r] \in {"config", "finally"}
       /\ \A r \in Runs : (pc[r] # "start" /\ pc'[r] = "start") =>
            pc[r] \in {"queued", "starter", "input"}]_vars

\* a click in the history has queued its question and the script has restarted
C19_QueuedAfterHistoryClick ==
    \E r \in Runs :
        /\ pc[r] = "config"
        /\ trigger[r] = NoTrigger
        /\ next_question = PyStr(<<"q">>)
        /\ Len(messages) >= 2

\* C20 (history is append-only, committed messages are immutable): no step
\* of the session (turns, renders, file additions and removals, question
\* queueing, reruns) shortens st.session_state.messages or changes a message
\* it holds: the messages before the step are the first messages after it,
\* with the same role, content, tools, sources and suggested questions.
C20_HistoryAppendOnly ==
    [][/\ Len(messages') >= Len(messages)
       /\ SubSeq(messages', 1, Len(messages)) = messages]_vars

\* two turns have appended after a reply with suggested questions, which is
\* still the second message
C20_GrownPastReply ==
    /\ Len(messages) >= 4
    /\ messages[2].role = "assistant"
    /\ Truthy(QuestionsOf(messages[2]))
    /\ \A r \in Runs : pc[r] = "idle"

\* C21 (is_processing tracks the turn): is_processing is true in every state
\* in which a turn is between its start and its end (the user message not yet
\* appended up to the assistant message appended), false in every state in
\* which no turn is in flight, and false in every state in which a script run
\* is at the chat input.
C21_FlagTracksTurn ==
    /\ (\E r \in Runs : pc[r] \in InFlight) => is_processing
    /\ (\A r \in Runs : pc[r] \notin InFlight) => ~is_processing
    /\ \A r \in Runs : pc[r] = "input" => ~is_processing

\* C22 (the chat configuration is fetched once per session): over any number
\* of script runs of one session get_chat_config is called at most once,
\* whatever the backend returned: a configuration with starter questions, an
\* empty one, or a failure.
C22_ConfigFetchedOnce == config_calls <= 1

\* the accumulators of side data, which an event of another kind leaves alone
SideDataOf(acc) == <<acc.tools, acc.sources, acc.suggested_questions>>

\* C23 (a stream error overwrites content only): the pass of the loop that
\* takes a line decoding to an error event with message m sets content to
\* "Error: " followed by m (str(m) when m is not a string), whatever text was
\* accumulated before, redraws the placeholder with that content, and leaves
\* tools, sources and suggested_questions as they were.
C23_ErrorOverwritesContent ==
    [][\A l \in ResponseLines :
        (Taking(l) /\ l # <<>> /\ Decoded(l).type = "error") =>
            /\ pending'.content = <<"Error: ">> \o PyToStr(Decoded(l).data)
            /\ pending'.shown = [drawn |-> TRUE, text |-> pending'.content]
            /\ SideDataOf(pending') = SideDataOf(pending)
            /\ result' = Streaming]_vars

\* an error event was consumed after text and a tools record
C23_ErrorAfterTextAndTool ==
    /\ consumed = 3
    /\ response = <<TextLine, ToolsLine, ErrorLine>>
    /\ pending.content = <<"Error: ", "boom">>
    /\ pending.tools = <<PyStr(<<"t">>)>>

\* the nodes of the last sources event of lines
LastNodes(lines) ==
    IF SideData(lines, "sources") = {} THEN PyList(<<>>)
    ELSE DictGet(DataOf(lines[Last(SideData(lines, "sources"))], PyDict(<<>>)).v,
                 <<"nodes">>, PyList(<<>>))

\* the data of the last suggested_questions event of lines
LastQuestions(lines) ==
    IF SideData(lines, "suggested_questions") = {} THEN PyList(<<>>)
    ELSE DataOf(lines[Last(SideData(lines, "suggested_questions"))], PyList(<<>>))

\* the lines after position i
After(lines, i) == SubSeq(lines, i + 1, Len(lines))

\* C24 (an in-stream error is not fatal): an error event, sent as a 3: line
\* or made by a decode failure on a known prefix, never makes
\* render_streaming_message raise; when the function returns after a response
\* with an error event, every line was consumed, the content is the last
\* error text followed by the text that came after it, and the side data of
\* the whole response, the events after the error included, is in the message.
C24_StreamErrorNotFatal ==
    /\ result.state = "raised" => Decoded(response[consumed]).type # "error"
    /\ (result.state = "returned" /\ EventsOf(response, "error") # {}) =>
        LET e == Last(EventsOf(response, "error")) IN
        /\ consumed = Len(response)
        /\ pending.content = <<"Error: ">> \o PyToStr(Decoded(response[e]).data)
                             \o TextPayloads(After(response, e))
        /\ pending.tools = ToolRecords(response)
        /\ pending.sources = LastNodes(response)
        /\ pending.suggested_questions = LastQuestions(response)

\* a decode failure, then a tools record and text, and the message was returned
C24_ReturnedAfterDecodeFailure ==
    /\ result.state = "returned"
    /\ response = <<BadJsonLine, ToolsLine, TextLine>>
    /\ pending.tools = <<PyStr(<<"t">>)>>
    /\ pending.content = <<"Error: ", "Failed to parse text chunk", "a">>

\* C25 (the incremental render tracks content): after every pass of the loop,
\* and when render_streaming_message returns, what message_placeholder shows
\* is the content accumulated so far, or nothing was drawn yet and content is
\* empty: every text and error event redraws the placeholder with the full
\* content.
C25_RenderTracksContent ==
    \/ pending.shown.drawn /\ pending.shown.text = pending.content
    \/ ~pending.shown.drawn /\ pending.content = <<>>

\* text, an error and text again were drawn, and the message was returned
C25_ReturnedAfterThreeRedraws ==
    /\ result.state = "returned"
    /\ response = <<TextLine, ErrorLine, TextLineB>>
    /\ pending.shown = [drawn |-> TRUE, text |-> <<"Error: ", "boom", "b">>]
    /\ AssistantMessage(pending).content = pending.shown.text

\* C26 (unrecognized and blank lines are no-ops): the pass of the loop that
\* takes an empty line does not call process_streaming_line; a line of blanks
\* and a line with an unknown prefix decode to the event of type None; none
\* of the three changes content, tools, sources or suggested_questions or
\* redraws the placeholder, and nothing is raised.
C26_BlankAndUnknownAreNoOps ==
    [][/\ Taking(<<>>) => UNCHANGED <<line, processed>>
       /\ \A l \in {BlankLine, UnknownPrefixLine} :
            Taking(l) => line' = l /\ processed' = Event("None", PyNone)
       /\ \A l \in {<<>>, BlankLine, UnknownPrefixLine} :
            Taking(l) => pending' = pending /\ result' = Streaming]_vars

\* text, then an empty line, then a line with an unknown prefix: the decoder
\* was last called on the unknown prefix and the text is as it was
C26_ConsumedBlankAndUnknown ==
    /\ consumed = 3
    /\ response = <<TextLine, <<>>, UnknownPrefixLine>>
    /\ line = UnknownPrefixLine
    /\ processed = Event("None", PyNone)
    /\ pending.content = <<"a">>
    /\ pending.shown.text = <<"a">>

\* the content a response gives a message: its text, or from its last error
\* event on the error text and the text after it
ContentOf(lines) ==
    IF EventsOf(lines, "error") = {} THEN TextPayloads(lines)
    ELSE LET e == Last(EventsOf(lines, "error")) IN
         <<"Error: ">> \o PyToStr(Decoded(lines[e]).data)
         \o TextPayloads(After(lines, e))

\* the message a response gives, from its lines alone
MessageOf(lines) ==
    [role |-> "assistant", content |-> ContentOf(lines),
     sources |-> LastNodes(lines), tools |-> ToolRecords(lines),
     suggested_questions |-> LastQuestions(lines)]

\* C27 (turn isolation): the assistant message a turn commits is a function
\* of the lines of that turn's response alone: whatever the history, the
\* pending files and the queued question of the session were, and whatever
\* earlier turns accumulated, the committed message is the one an empty
\* pending message gives under these lines.
C27_TurnIsolation ==
    \A r \in Returning :
        obs[r].path = "commit" =>
            obs[r].appended[2] = MessageOf(obs[r].lines)

\* a second turn committed a message with nothing of the first turn's reply
C27_SecondTurnCommitted ==
    \E r \in Returning :
        /\ obs[r].path = "commit"
        /\ obs[r].lines = <<TextLine>>
        /\ Len(messages) = 4
        /\ Truthy(QuestionsOf(messages[2]))
        /\ messages[4] = obs[r].appended[2]
        /\ ~Truthy(QuestionsOf(messages[4]))
        /\ messages[4].content = <<"a">>

\* the statements of send_message between the append of the user message and
\* the append of the assistant message
AwaitingReply == {"payload", "post", "stream", "render", "buttons", "commit", "except"}

\* C28 (conversation shape): in every state in which no turn is in flight the
\* history has even length and its roles alternate user, assistant, starting
\* with user; while a turn has appended its user message and not yet its
\* assistant message the history has odd length and ends with that user
\* message.
C28_ConversationShape ==
    /\ (\A r \in Runs : pc[r] \notin InFlight) =>
        /\ Len(messages) % 2 = 0
        /\ \A i \in 1..Len(messages) :
            messages[i].role = IF i % 2 = 1 THEN "user" ELSE "assistant"
    /\ \A r \in Runs : pc[r] \in AwaitingReply =>
        /\ Len(messages) % 2 = 1
        /\ messages[Len(messages)] = UserMessage(local[r].message)

\* C29 (building the payload does not touch the history): no message of the
\* history carries an annotations field, every user message of the history
\* has a role and a content and nothing else, and the user message of a call
\* that attached files to its payload is in the history as
\* {role: user, content: message}.
C29_PayloadLeavesHistory ==
    /\ \A i \in 1..Len(messages) :
        /\ "annotations" \notin DOMAIN messages[i]
        /\ messages[i].role = "user" => DOMAIN messages[i] = {"role", "content"}
    /\ \A r \in Runs :
        (pc[r] \in InSendMessage /\ obs[r].attached # <<>>) =>
            \E i \in 1..Len(messages) : messages[i] = UserMessage(local[r].message)

\* a turn that attached a file has committed its reply
C29_CommittedAfterAttaching ==
    \E r \in Returning :
        /\ obs[r].attached # <<>>
        /\ obs[r].path = "commit"
        /\ messages[Len(messages) - 1] = UserMessage(local[r].message)

\* C30: initialize_session_state assigns a key only when the key is absent: a
\* key that is present keeps its value, an absent key gets its default, and a
\* call on a session state that holds all five keys changes nothing.
C30_InitialisationIdempotent ==
    [][ LET before == startup.session_state
            after == startup'.session_state
        IN  /\ Keys \subseteq DOMAIN after
            /\ \A key \in Keys :
                after[key] = IF key \in DOMAIN before THEN before[key]
                             ELSE Default(key)
            /\ Keys \subseteq DOMAIN before => after = before ]_vars

\* the initialisation ran again on an initialised session state with history,
\* a pending file, a cached config, the flag set and a queued question
C30_InitialisedTwice ==
    /\ startup.calls = MaxInitCalls
    /\ \A key \in Keys : startup.session_state[key] # Default(key)

====
